---- MODULE Spec2Model ----
(***************************************************************************)
(* Model of ar.py: the path rewriter (findsublist, applyRelations), the    *)
(* Quiver class (path listing and counting, indecomposables and their      *)
(* caches) and the Auslander-Reiten quiver builder arQuiver.               *)
(*                                                                         *)
(* Python sequences are 0-indexed, TLA+ sequences 1-indexed: positions     *)
(* returned by findsublist keep the Python convention (0-based, -1 for     *)
(* "not found"); element k of a Python list is element k+1 here.           *)
(***************************************************************************)
EXTENDS Integers, Sequences, FiniteSets, Bags, TLC

VARIABLES
    \* ---- the Quiver object G (Quiver.__init__) ----
    nodes,      \* G.nodes(): the vertices, in the iteration order of the node dict
    edges,      \* the arrows added by add_edge (parallel arrows repeat), in an order that
                \* lists the neighbours of each vertex as its adjacency dict iterates them
    rel,        \* self.rel: sequence of <<pattern, replacement>>, in iteration order
    comm,       \* self.comm
    api,        \* self.api  (None or a list)
    aii,        \* self.aii
    ari,        \* self.ari
    \* ---- one activation of applyRelations ----
    rwP,        \* the argument p
    rwRet,      \* the local ret
    rwStop,     \* the local stop
    rwI,        \* position of the for loop in self.rel (1-based)
    rwPc,       \* "while" | "for" | "returned"
    rwCall,     \* 1: first call; 2: the call on the first call's result
    rwInput,    \* the argument of the first call
    rwFirst,    \* the value returned by the first call
    \* ---- one activation of arQuiver(G) ----
    arNodes,    \* ar: its nodes (dimension vectors)
    arEdges,    \* ar: its arrows <<s, t>>, as a bag (a MultiDiGraph keeps, for every s
                \* and t, the parallel arrows from s to t, and no order of insertion)
    arIterated, \* the nodes of ar whose neighbours the loop of line 215 has gone through
    todo,       \* the deque todo
    ctr,        \* the local ctr
    seedI,      \* position of "for v in G.nodes()" (1-based)
    arPc,       \* "idle" | "seed" | "loop" | "done" (line 219) | "infinite" (line 214) | "raised"
    \* ---- a client that builds and queries G ----
    qPc,        \* "idle" | "ready" | "hung" (a call that never returns) | "raised" (by the call qRet names)
    qRet,       \* the last call and what it returned: [op, args, n, vec, val, again]
    nCalls,     \* activations of proj_indecomp, inj_indecomp and radical_proj by the all_* methods so far
    nLate,      \* mutations of G made after the first query
    queried,    \* a query was made
    \* ---- one call of a function that reads no object state ----
    fnPc,       \* "idle" | "called" | "returned"
    fnOp,       \* "none" | "isSimple" | "findsublist"
    fnArgs,     \* the arguments: <<module>> or <<haystack, needle>>
    fnRet       \* the value returned: [b, n] (b for a truth value, n for an integer)

rwVars == <<rwP, rwRet, rwStop, rwI, rwPc, rwCall, rwInput, rwFirst>>
arVars == <<arNodes, arEdges, arIterated, todo, ctr, seedI, arPc>>
clVars == <<qPc, qRet, nCalls, nLate, queried>>
fnVars == <<fnPc, fnOp, fnArgs, fnRet>>
vars   == <<nodes, edges, rel, comm, api, aii, ari,
           rwP, rwRet, rwStop, rwI, rwPc, rwCall, rwInput, rwFirst,
           arNodes, arEdges, arIterated, todo, ctr, seedI, arPc,
           qPc, qRet, nCalls, nLate, queried,
           fnPc, fnOp, fnArgs, fnRet>>
\* what a step of applyRelations leaves alone besides its own locals
rwFrame == <<nodes, edges, rel, comm, api, aii, ari, arVars, clVars, fnVars>>

----------------------------------------------------------------------------
\* Bounds of the rewriter specification
MaxSym     == 2     \* path entries are drawn from 1..MaxSym
MaxPatLen  == 2     \* longest relation pattern
MaxRepLen  == 2     \* longest relation replacement
MaxRels    == 2     \* most relations stored
MaxPathLen == 3     \* longest path handed to applyRelations

Max(S) == CHOOSE x \in S : \A y \in S : y <= x

SeqsUpTo(S, lo, hi) == UNION {[1..n -> S] : n \in lo..hi}

\* None, as the initial value of the three caches
None == [some |-> FALSE, val |-> <<>>]
Some(l) == [some |-> TRUE, val |-> l]
\* Python truth value of a cache field: None and the empty list are both false
Truthy(c) == c.some /\ Len(c.val) > 0

----------------------------------------------------------------------------
\* findsublist (Boyer-Moore-Horspool)

\* skip.get(x, n) for skip = {needle[i]: n - i - 1 for i in range(n - 1)}:
\* a later i overwrites an earlier one with the same key
\* skipGet for an empty skip table (every shift is the whole needle)
skipGet_noTable(needle, x) == Len(needle)

skipGet(needle, x) ==
    LET n == Len(needle)
        I == {i \in 0..(n - 2) : needle[i + 1] = x}
    IN  IF I = {} THEN n ELSE n - Max(I) - 1

RECURSIVE findloop(_, _, _)
findloop(haystack, needle, i) ==
    LET h == Len(haystack)
        n == Len(needle)
    IN  IF ~(i < h) THEN -1
        ELSE IF \A j \in 0..(n - 1) : haystack[i - j + 1] = needle[n - j]
             THEN i - n + 1
             ELSE findloop(haystack, needle, i + skipGet(needle, haystack[i + 1]))

findsublist(haystack, needle) == findloop(haystack, needle, Len(needle) - 1)

----------------------------------------------------------------------------
\* applyRelations

\* p[k:] of Python (k 0-based; empty when k >= len(p))
SliceFrom(s, k) == SubSeq(s, k + 1, Len(s))

\* ForStep without line 69 (stop is not reset when a pattern is found)
ForStep_keepStop(rl, pp, st, k) ==
    LET r   == rl[k][1]
        pos == findsublist(st.ret, r)
    IN  IF pos >= 0
        THEN [ret |-> rl[k][2] \o SliceFrom(pp, pos + Len(r)), stop |-> st.stop]
        ELSE st

\* One iteration of "for r in self.rel" on relation number k, from the
\* locals st = [ret, stop]; pp is the argument p.
ForStep(rl, pp, st, k) ==
    LET r   == rl[k][1]
        pos == findsublist(st.ret, r)
    IN  IF pos >= 0
        THEN [ret |-> rl[k][2] \o SliceFrom(pp, pos + Len(r)), stop |-> FALSE]
        ELSE st

RECURSIVE ForLoop(_, _, _, _)
ForLoop(rl, pp, st, k) ==
    IF k > Len(rl) THEN st ELSE ForLoop(rl, pp, ForStep(rl, pp, st, k), k + 1)

\* The while loop from a state with stop = False and the given ret.  seen
\* holds the values ret had at earlier tests of the loop condition; the loop
\* body is a function of ret alone, so a repeated value means it never exits.
RECURSIVE WhileLoop(_, _, _, _)
WhileLoop(rl, pp, rt, seen) ==
    LET st == ForLoop(rl, pp, [ret |-> rt, stop |-> TRUE], 1)
    IN  IF st.stop THEN [conv |-> TRUE, val |-> st.ret]
        ELSE IF st.ret \in seen \cup {rt} THEN [conv |-> FALSE, val |-> st.ret]
        ELSE WhileLoop(rl, pp, st.ret, seen \cup {rt})

\* does applyRelations(p) return?
Terminates(rl, pp) == WhileLoop(rl, pp, pp, {}).conv
\* its value when it does
applyRelations(rl, pp) == WhileLoop(rl, pp, pp, {}).val

----------------------------------------------------------------------------
\* The Quiver class: a quiver value g is the record of its fields
\* [nodes, edges, rel, comm, api, aii, ari].

G == [nodes |-> nodes, edges |-> edges, rel |-> rel, comm |-> comm,
      api |-> api, aii |-> aii, ari |-> ari]

Range(s) == UNION {{t[i] : i \in 1..Len(t)} : t \in {s}}

\* sum(l) of a Python list l, as the sum of its first n entries
RECURSIVE SumTo(_, _)
SumTo(l, n) == IF n = 0 THEN 0 ELSE l[n] + SumTo(l, n - 1)
sum(l) == CHOOSE n \in {SumTo(t, Len(t)) : t \in {l}} : TRUE

\* the concatenation of a sequence of sequences
RECURSIVE Flatten(_)
Flatten(ss) == IF ss = <<>> THEN <<>> ELSE Head(ss) \o Flatten(Tail(ss))

\* s with x put in after its first i entries
InsertAt(s, i, x) == SubSeq(s, 1, i) \o <<x>> \o SubSeq(s, i + 1, Len(s))

\* d[k] = ... on a dict whose keys iterate in the order ks: the orders its
\* keys can iterate in afterwards.  The graphs and self.rel are Python 2
\* dicts, which iterate in the order of their hash table: a key the dict
\* holds stays where it is, a new key takes a place that depends on its hash
\* (a table is rebuilt at its sixth key; the dicts written here stay below)
KeyOrders(ks, k) ==
    IF k \in Range(ks) THEN {ks} ELSE {InsertAt(ks, i, k) : i \in 0..Len(ks)}

\* the positions in es of the first arrow from s to each of its neighbours
FirstArrows(es, s) ==
    {k \in 1..Len(es) :
        /\ es[k][1] = s
        /\ \A j \in 1..(k - 1) : ~(es[j][1] = s /\ es[j][2] = es[k][2])}

\* nx add_edge(s, t) on the arrows es.  A parallel arrow leaves the adjacency
\* dict of s as it is and is put next to the arrows it is parallel to; a new
\* neighbour t is a new key of that dict and takes any place among the
\* neighbours s has.  No code reads the arrows of two vertices in one
\* sequence: the first arrow of s goes behind the arrows of the vertices
\* below s.
AddArrow(es, s, t) ==
    LET mine == {k \in 1..Len(es) : es[k][1] = s}
        same == {k \in mine : es[k][2] = t}
    IN  IF mine = {} THEN {InsertAt(es, Cardinality({k \in 1..Len(es) : es[k][1] < s}), <<s, t>>)}
        ELSE IF same # {} THEN {InsertAt(es, Max(same), <<s, t>>)}
        ELSE {InsertAt(es, k - 1, <<s, t>>) : k \in FirstArrows(es, s)}
                \cup {InsertAt(es, Max(mine), <<s, t>>)}

\* nx successors(s) of a multigraph given by its arrows es: the keys of the
\* adjacency dict of s, each neighbour once, however many parallel arrows
\* lead to it
successors(es, s) ==
    LET first == FirstArrows(es, s)
    IN  [i \in 1..Cardinality(first) |->
           es[CHOOSE k \in first : Cardinality({j \in first : j <= k}) = i][2]]

\* self.nodes().index(v), 1-based
index(ns, v) == CHOOSE i \in 1..Len(ns) : ns[i] = v /\ \A j \in 1..(i - 1) : ns[j] # v

\* [[s] + p for p in ps]  (ps is bound to x, which evaluates it once)
Prefixed(s, ps) ==
    CHOOSE q \in {[j \in 1..Len(x) |-> <<s>> \o x[j]] : x \in {ps}} : TRUE

\* the list of all paths from s to t, as vertex sequences
RECURSIVE listPaths(_, _, _)
listPaths(g, s, t) ==
    IF s = t THEN << <<t>> >>
    ELSE Flatten(CHOOSE r \in
            {[i \in 1..Len(ss) |-> Prefixed(s, listPaths(g, ss[i], t))] :
                ss \in {successors(g.edges, s)}} : TRUE)

\* every path that listReducedPaths(s, t) normalizes is normalized in
\* finitely many steps
Converges(g, s, t) == \A pth \in Range(listPaths(g, s, t)) : Terminates(g.rel, pth)

\* the set red of listReducedPaths (its list is only ever counted)
listReducedPaths(g, s, t) ==
    {applyRelations(g.rel, pth) : pth \in Range(listPaths(g, s, t))}

\* countReducedPaths without the collapse of lines 95-99
countReducedPaths_noCollapse(g, s, t) ==
    Cardinality(listReducedPaths(g, s, t))

countReducedPaths(g, s, t) ==
    LET npaths == Cardinality(listReducedPaths(g, s, t))
    IN  IF g.comm
        THEN (IF npaths = 0 THEN 0 ELSE 1)
        ELSE npaths

\* proj_indecomp without the cache test of line 107
proj_indecomp_noCache(g, v) ==
    [i \in 1..Len(g.nodes) |-> countReducedPaths(g, v, g.nodes[i])]

proj_indecomp(g, v) ==
    IF Truthy(g.api) THEN g.api.val[index(g.nodes, v)]
    ELSE [i \in 1..Len(g.nodes) |-> countReducedPaths(g, v, g.nodes[i])]

inj_indecomp(g, v) ==
    IF Truthy(g.aii) THEN g.aii.val[index(g.nodes, v)]
    ELSE [i \in 1..Len(g.nodes) |-> countReducedPaths(g, g.nodes[i], v)]

radical_proj(g, v) ==
    IF Truthy(g.ari) THEN g.ari.val[index(g.nodes, v)]
    ELSE [proj_indecomp(g, v) EXCEPT ![index(g.nodes, v)] = 0]

\* the value of self.api after all_proj_indecomp() (which returns it)
all_proj_indecomp(g) ==
    IF ~Truthy(g.api)
    THEN Some([i \in 1..Len(g.nodes) |-> proj_indecomp(g, g.nodes[i])])
    ELSE g.api

all_rad_indecomp(g) ==
    IF ~Truthy(g.ari)
    THEN Some([i \in 1..Len(g.nodes) |-> radical_proj(g, g.nodes[i])])
    ELSE g.ari

all_inj_indecomp(g) ==
    IF ~Truthy(g.aii)
    THEN Some([i \in 1..Len(g.nodes) |-> inj_indecomp(g, g.nodes[i])])
    ELSE g.aii

\* isSimple without the second test of line 159
isSimple_sumOnly(module) ==
    sum(module) = 1

isSimple(module) ==
    /\ sum(module) = 1
    /\ Cardinality({i \in DOMAIN module : module[i] # 0}) = 1

zeros(g) == [i \in 1..Len(g.nodes) |-> 0]

----------------------------------------------------------------------------
\* applyRelations as a step machine

Patterns     == SeqsUpTo(1..MaxSym, 1, MaxPatLen)
Replacements == SeqsUpTo(1..MaxSym, 0, MaxRepLen)
\* a dict has one entry per key
RelSeqs == {rs \in SeqsUpTo(Patterns \X Replacements, 0, MaxRels) :
               \A i, j \in 1..Len(rs) : i # j => rs[i][1] # rs[j][1]}

\* no arQuiver activation
ArIdle ==
    /\ arNodes = {} /\ arEdges = EmptyBag /\ arIterated = {} /\ todo = <<>>
    /\ ctr = 0 /\ seedI = 0 /\ arPc = "idle"

\* no applyRelations activation
RwIdle ==
    /\ rwP = <<>> /\ rwRet = <<>> /\ rwStop = FALSE /\ rwI = 0 /\ rwPc = "idle"
    /\ rwCall = 0 /\ rwInput = <<>> /\ rwFirst = <<>>

\* no client
NoCall == [op |-> "none", args |-> <<>>, n |-> 0, vec |-> <<>>, val |-> <<>>, again |-> FALSE]
ClIdle ==
    /\ qPc = "idle" /\ qRet = NoCall
    /\ nCalls = 0 /\ nLate = 0 /\ queried = FALSE

\* no call of isSimple or findsublist on its own
NoRet == [b |-> FALSE, n |-> 0]
FnIdle ==
    /\ fnPc = "idle" /\ fnOp = "none" /\ fnArgs = <<>> /\ fnRet = NoRet

InitRewrite ==
    /\ nodes = <<>> /\ edges = <<>> /\ comm = FALSE
    /\ api = None /\ aii = None /\ ari = None
    /\ ArIdle
    /\ ClIdle
    /\ FnIdle
    /\ rel \in RelSeqs
    /\ rwP \in SeqsUpTo(1..MaxSym, 0, MaxPathLen)
    /\ rwRet = rwP /\ rwStop = FALSE /\ rwI = 0 /\ rwPc = "while"
    /\ rwCall = 1 /\ rwInput = rwP /\ rwFirst = <<>>

\* "while not stop": enter the body (stop = True, start the for loop)
RwWhileEnter ==
    /\ rwPc = "while" /\ ~rwStop
    /\ rwStop' = TRUE /\ rwI' = 1 /\ rwPc' = "for"
    /\ UNCHANGED <<rwP, rwRet, rwCall, rwInput, rwFirst, rwFrame>>

\* "while not stop" fails: return tuple(ret)
RwReturn ==
    /\ rwPc = "while" /\ rwStop
    /\ rwPc' = "returned"
    /\ UNCHANGED <<rwP, rwRet, rwStop, rwI, rwCall, rwInput, rwFirst, rwFrame>>

\* RwForEnd with "return tuple(ret)" inside the while loop
RwForEnd_returns ==
    /\ rwPc = "for" /\ rwI > Len(rel)
    /\ rwPc' = "returned"
    /\ UNCHANGED <<rwP, rwRet, rwStop, rwI, rwCall, rwInput, rwFirst, rwFrame>>

\* the for loop is exhausted
RwForEnd ==
    /\ rwPc = "for" /\ rwI > Len(rel)
    /\ rwPc' = "while"
    /\ UNCHANGED <<rwP, rwRet, rwStop, rwI, rwCall, rwInput, rwFirst, rwFrame>>

\* position of relation number rwI in the current ret
RwPos == findsublist(rwRet, rel[rwI][1])

\* RwForMatch with a "break" after line 69: the scan restarts from the top
RwForMatch_break ==
    /\ rwPc = "for" /\ rwI <= Len(rel) /\ RwPos >= 0
    /\ LET st == ForStep(rel, rwP, [ret |-> rwRet, stop |-> rwStop], rwI)
       IN  rwRet' = st.ret /\ rwStop' = st.stop
    /\ rwI' = rwI /\ rwPc' = "while"
    /\ UNCHANGED <<rwP, rwCall, rwInput, rwFirst, rwFrame>>

\* a for iteration whose pattern is found
RwForMatch ==
    /\ rwPc = "for" /\ rwI <= Len(rel) /\ RwPos >= 0
    /\ LET st == ForStep(rel, rwP, [ret |-> rwRet, stop |-> rwStop], rwI)
       IN  rwRet' = st.ret /\ rwStop' = st.stop
    /\ rwI' = rwI + 1
    /\ UNCHANGED <<rwP, rwPc, rwCall, rwInput, rwFirst, rwFrame>>

\* a for iteration whose pattern is not found
RwForNoMatch ==
    /\ rwPc = "for" /\ rwI <= Len(rel) /\ RwPos < 0
    /\ LET st == ForStep(rel, rwP, [ret |-> rwRet, stop |-> rwStop], rwI)
       IN  rwRet' = st.ret /\ rwStop' = st.stop
    /\ rwI' = rwI + 1
    /\ UNCHANGED <<rwP, rwPc, rwCall, rwInput, rwFirst, rwFrame>>

\* the caller normalizes the returned path again
RwCallAgain ==
    /\ rwPc = "returned" /\ rwCall = 1
    /\ rwFirst' = rwRet /\ rwCall' = 2
    /\ rwP' = rwRet /\ rwRet' = rwRet /\ rwStop' = FALSE /\ rwI' = 0 /\ rwPc' = "while"
    /\ UNCHANGED <<rwInput, rwFrame>>

NextRewrite ==
    \/ RwWhileEnter
    \/ RwReturn
    \/ RwForEnd
    \/ RwForMatch
    \/ RwForNoMatch
    \/ RwCallAgain

SpecRewrite == InitRewrite /\ [][NextRewrite]_vars

----------------------------------------------------------------------------
\* arQuiver

\* Bounds of the builder specification
MaxV    == 3     \* every acyclic quiver on vertices 1..n, n <= MaxV, is an input
MaxArms == 4     \* and every quiver of k <= MaxArms arrows into one vertex
MaxIter == 100   \* most iterations of the worklist loop that are followed

\* Python tuple comparison of two arrows
PairLess(e, f) == e[1] < f[1] \/ (e[1] = f[1] /\ e[2] < f[2])

RECURSIVE SortPairs(_)
SortPairs(S) ==
    IF S = {} THEN <<>>
    ELSE LET m == CHOOSE e \in S : \A f \in S : e = f \/ PairLess(e, f)
         IN  <<m>> \o SortPairs(S \ {m})

\* no directed cycle: sinks can be peeled off until nothing is left
RECURSIVE Acyclic(_, _)
Acyclic(V, E) ==
    \/ V = {}
    \/ LET sinks == {v \in V : \A e \in E : ~(e[1] = v /\ e[2] \in V)}
       IN  sinks # {} /\ Acyclic(V \ sinks, E)

Fresh(ns, es, rl, cm) ==
    [nodes |-> ns, edges |-> es, rel |-> rl, comm |-> cm,
     api |-> None, aii |-> None, ari |-> None]

\* relations between two different paths with the same end points
ParallelPathRels(g) ==
    {<< <<p0, p1>> >> : <<p0, p1>> \in
        {pq \in UNION {Range(listPaths(g, s, t)) \X Range(listPaths(g, s, t)) :
                          s \in Range(g.nodes), t \in Range(g.nodes)} :
            pq[1] # pq[2]}}

SmallQuivers ==
    UNION {
      LET g0 == Fresh([i \in 1..n |-> i], SortPairs(E), <<>>, FALSE)
      IN  {Fresh(g0.nodes, g0.edges, rl, cm) :
              rl \in {<<>>} \cup ParallelPathRels(g0), cm \in BOOLEAN}
      : <<n, E>> \in {nE \in UNION {{n} \X SUBSET {e \in (1..n) \X (1..n) : e[1] # e[2]}
                                      : n \in 0..MaxV} :
                         Acyclic(1..nE[1], nE[2])}}

\* k arrows into vertex 1 and, when ext = 1, a further vertex with an arrow
\* to the source of the last of them
StarQuivers ==
    {Fresh([i \in 1..(k + 1 + ext) |-> i],
           [i \in 1..(k + ext) |-> IF i <= k THEN <<i + 1, 1>> ELSE <<k + 2, k + 1>>],
           <<>>, cm) :
        k \in 1..MaxArms, ext \in {0, 1}, cm \in BOOLEAN}

\* self.rel[path0] = path1 on the relations rl: a stored pattern keeps its
\* place, a new pattern is a new key of the dict
SetRel(rl, path0, path1) ==
    IF \E k \in 1..Len(rl) : rl[k][1] = path0
    THEN {[k \in 1..Len(rl) |-> IF rl[k][1] = path0 THEN <<path0, path1>> ELSE rl[k]]}
    ELSE {InsertAt(rl, i, <<path0, path1>>) : i \in 0..Len(rl)}

\* the quiver of the "Example usage" docstring with its relations in the
\* iteration order rl
ExampleQuiver(rl) ==
    Fresh(<<1, 2, 3, 4, 5, 6>>,
          << <<1, 2>>, <<3, 2>>, <<4, 5>>, <<6, 5>>, <<1, 4>>, <<2, 5>>, <<3, 6>> >>,
          rl, FALSE)

\* the two add_relation calls of the docstring
ExampleRels ==
    UNION {SetRel(rl, <<3, 2, 5>>, <<3, 6, 5>>) :
              rl \in SetRel(<<>>, <<1, 2, 5>>, <<1, 4, 5>>)}

ExampleQuivers == {ExampleQuiver(rl) : rl \in ExampleRels}

\* the inputs of arQuiver: quivers on which every path query returns
ArInputs ==
    {g \in SmallQuivers \cup StarQuivers \cup ExampleQuivers :
        \A s \in Range(g.nodes), t \in Range(g.nodes) : Converges(g, s, t)}

InitAR ==
    /\ \E g \in ArInputs :
          /\ nodes = g.nodes /\ edges = g.edges /\ rel = g.rel /\ comm = g.comm
          /\ api = g.api /\ aii = g.aii /\ ari = g.ari
    /\ RwIdle
    /\ ClIdle
    /\ FnIdle
    /\ arNodes = {} /\ arEdges = EmptyBag /\ arIterated = {} /\ todo = <<>>
    /\ ctr = 0 /\ seedI = 1 /\ arPc = "seed"

\* what a step of arQuiver leaves alone besides ar, todo and its locals
\* (G.aii is written by the all_inj_indecomp() call of line 206)
arFrame == <<nodes, edges, rel, comm, api, ari, rwVars, clVars, fnVars>>

\* the lists with the elements of S, each once
RECURSIVE Orders(_)
Orders(S) ==
    IF S = {} THEN {<<>>}
    ELSE UNION {{<<x>> \o q : q \in Orders(S \ {x})} : x \in S}

\* the neighbours of p in ar: the keys of its adjacency dict
arNeighbours(p) == {e[2] : e \in {f \in BagToSet(arEdges) : f[1] = p}}

\* ar.successors(p): the lists it can return.  The neighbours of p are the
\* keys of a Python 2 dict of tuples, which lists them in the order of their
\* hash values: each neighbour once, in an order the code does not fix.  No
\* dict is listed for the loop of line 215 a second time (ArIteratesOnce), so
\* that the order of one call binds no later call.
arSuccessors(p) == Orders(arNeighbours(p))

\* arW without the subtraction of p[j]
arW_noSubtract(ss, p) == [j \in 1..Len(p) |-> sum([i \in 1..Len(ss) |-> ss[i][j]])]

\* the candidate w of line 209
arW(ss, p) == [j \in 1..Len(p) |-> sum([i \in 1..Len(ss) |-> ss[i][j]]) - p[j]]

\* ArSeed without line 192 (add_node of the injective)
ArSeed_noInj ==
    /\ arPc = "seed" /\ seedI <= Len(nodes)
    /\ LET v    == nodes[seedI]
           rad  == radical_proj(G, v)
           proj == proj_indecomp(G, v)
       IN  /\ arNodes' = arNodes \cup {rad, proj}
           /\ arEdges' = arEdges (+) SetToBag({<<rad, proj>>})
           /\ todo' = IF isSimple(proj) THEN Append(todo, proj) ELSE todo
    /\ seedI' = seedI + 1
    /\ UNCHANGED <<arIterated, ctr, arPc, aii, arFrame>>

\* lines 191-194: one iteration of the seed loop
ArSeed ==
    /\ arPc = "seed" /\ seedI <= Len(nodes)
    /\ LET v    == nodes[seedI]
           rad  == radical_proj(G, v)
           proj == proj_indecomp(G, v)
           inj  == inj_indecomp(G, v)
       IN  /\ arNodes' = arNodes \cup {rad, proj, inj}
           /\ arEdges' = arEdges (+) SetToBag({<<rad, proj>>})
           /\ todo' = IF isSimple(proj) THEN Append(todo, proj) ELSE todo
    /\ seedI' = seedI + 1
    /\ UNCHANGED <<arIterated, ctr, arPc, aii, arFrame>>

\* the arrows of ar that do not touch node n
WithoutNode(es, n) ==
    [e \in {f \in BagToSet(es) : f[1] # n /\ f[2] # n} |-> es[e]]

\* ArRemoveZero without the remove_node call
ArRemoveZero_keep ==
    /\ arPc = "seed" /\ seedI > Len(nodes)
    /\ zeros(G) \in arNodes
    /\ ctr' = 0 /\ arPc' = "loop"
    /\ UNCHANGED <<arIterated, arNodes, arEdges, todo, seedI, aii, arFrame>>

\* lines 196-198: ar.remove_node(G.zeros()); ctr = 0
ArRemoveZero ==
    /\ arPc = "seed" /\ seedI > Len(nodes)
    /\ zeros(G) \in arNodes
    /\ arNodes' = arNodes \ {zeros(G)}
    /\ arEdges' = WithoutNode(arEdges, zeros(G))
    /\ ctr' = 0 /\ arPc' = "loop"
    /\ UNCHANGED <<arIterated, todo, seedI, aii, arFrame>>

\* line 196 when the zero vector is not a node of ar: remove_node raises
ArRemoveZeroRaises ==
    /\ arPc = "seed" /\ seedI > Len(nodes)
    /\ zeros(G) \notin arNodes
    /\ arPc' = "raised"
    /\ UNCHANGED <<arIterated, arNodes, arEdges, todo, ctr, seedI, aii, arFrame>>

\* line 199 fails; line 219
ArDone ==
    /\ arPc = "loop" /\ todo = <<>>
    /\ arPc' = "done"
    /\ UNCHANGED <<arIterated, arNodes, arEdges, todo, ctr, seedI, aii, arFrame>>

\* line 206: the condition, and self.aii after it was evaluated ("and"
\* calls all_inj_indecomp only when isSimple(p) holds)
RuleA(p) == isSimple(p) /\ p \in Range(all_inj_indecomp(G).val)
AiiAfter206(p) == IF isSimple(p) THEN all_inj_indecomp(G) ELSE aii
\* RuleB that lets a component of -1 through
RuleB_belowMinusOne(w) == Cardinality({j \in DOMAIN w : w[j] < -1}) > 0

\* RuleC with the threshold raised by one
RuleC_above(w) == Cardinality({j \in DOMAIN w : w[j] >= 8}) > 0

\* line 210 and line 212
RuleB(w) == Cardinality({j \in DOMAIN w : w[j] < 0}) > 0
RuleC(w) == Cardinality({j \in DOMAIN w : w[j] >= 7}) > 0

\* ArRuleA with "p = todo[0]" in place of "p = todo.popleft()"
ArRuleA_peek ==
    /\ arPc = "loop" /\ Len(todo) > 0 /\ ctr < MaxIter
    /\ LET p == Head(todo)
       IN  /\ RuleA(p)
           /\ aii' = AiiAfter206(p)
    /\ ctr' = ctr + 1
    /\ UNCHANGED <<arIterated, todo, arNodes, arEdges, seedI, arPc, arFrame>>

\* lines 200-207: p is simple and injective
ArRuleA ==
    /\ arPc = "loop" /\ Len(todo) > 0 /\ ctr < MaxIter
    /\ LET p == Head(todo)
       IN  /\ RuleA(p)
           /\ aii' = AiiAfter206(p)
    /\ ctr' = ctr + 1
    /\ todo' = Tail(todo)
    /\ UNCHANGED <<arIterated, arNodes, arEdges, seedI, arPc, arFrame>>

\* lines 200-211: the candidate has a negative component
ArRuleB ==
    /\ arPc = "loop" /\ Len(todo) > 0 /\ ctr < MaxIter
    /\ LET p == Head(todo)
       IN  /\ ~RuleA(p)
           /\ \E ss \in arSuccessors(p) : RuleB(arW(ss, p))
           /\ aii' = AiiAfter206(p)
    /\ ctr' = ctr + 1
    /\ todo' = Tail(todo)
    /\ UNCHANGED <<arIterated, arNodes, arEdges, seedI, arPc, arFrame>>

\* ArRuleC with "continue" in place of "return ar"
ArRuleC_continue ==
    /\ arPc = "loop" /\ Len(todo) > 0 /\ ctr < MaxIter
    /\ LET p == Head(todo)
       IN  /\ ~RuleA(p)
           /\ \E ss \in arSuccessors(p) : ~RuleB(arW(ss, p)) /\ RuleC(arW(ss, p))
           /\ aii' = AiiAfter206(p)
    /\ ctr' = ctr + 1
    /\ todo' = Tail(todo)
    /\ UNCHANGED <<arIterated, arNodes, arEdges, seedI, arPc, arFrame>>

\* lines 200-214: the candidate has a component >= 7
ArRuleC ==
    /\ arPc = "loop" /\ Len(todo) > 0 /\ ctr < MaxIter
    /\ LET p == Head(todo)
       IN  /\ ~RuleA(p)
           /\ \E ss \in arSuccessors(p) : ~RuleB(arW(ss, p)) /\ RuleC(arW(ss, p))
           /\ aii' = AiiAfter206(p)
    /\ ctr' = ctr + 1
    /\ todo' = Tail(todo)
    /\ arPc' = "infinite"
    /\ UNCHANGED <<arIterated, arNodes, arEdges, seedI, arFrame>>

\* lines 215-218 on the arrows es of ar: one arrow s -> w per s of ss
ExpandEdges(es, ss, w) == es (+) SetToBag({<<ss[i], w>> : i \in 1..Len(ss)})
\* ExpandTodo without the test of line 217
ExpandTodo_noTest(td, ss) == td \o ss

\* lines 215-218 on the queue td: the entries of ss are pairwise different,
\* so each is appended exactly when it is not in the queue before the loop
ExpandTodo(td, ss) == td \o SelectSeq(ss, LAMBDA s : s \notin Range(td))

\* lines 200-218: an arrow s -> w for every successor s of p
ArExpand ==
    /\ arPc = "loop" /\ Len(todo) > 0 /\ ctr < MaxIter
    /\ LET p == Head(todo)
       IN  /\ ~RuleA(p)
           /\ aii' = AiiAfter206(p)
           /\ arIterated' = arIterated \cup {p}
           /\ \E ss \in arSuccessors(p) :
                 /\ ~RuleB(arW(ss, p))
                 /\ ~RuleC(arW(ss, p))
                 /\ arEdges' = ExpandEdges(arEdges, ss, arW(ss, p))
                 /\ todo' = ExpandTodo(Tail(todo), ss)
                 /\ arNodes' = IF Len(ss) > 0 THEN arNodes \cup {arW(ss, p)} ELSE arNodes
    /\ ctr' = ctr + 1
    /\ UNCHANGED <<seedI, arPc, arFrame>>

NextAR ==
    \/ ArSeed
    \/ ArRemoveZero
    \/ ArRemoveZeroRaises
    \/ ArDone
    \/ ArRuleA
    \/ ArRuleB
    \/ ArRuleC
    \/ ArExpand

SpecAR == InitAR /\ [][NextAR]_vars

\* arQuiver is sequential code: it keeps running until it returns or raises
SpecARFair == InitAR /\ [][NextAR]_vars /\ WF_vars(NextAR)

\* ar.successors(p) raises when p is not a node of ar; the queue only ever
\* holds nodes of ar, so that line 208 does not raise
ArTodoAreNodes == Range(todo) \subseteq arNodes

----------------------------------------------------------------------------
\* A client of the Quiver class: it builds G with add_edge, add_relation and
\* comm, and queries it.

\* Bounds of the client specification
MaxQV     == 3     \* vertices are drawn from 1..MaxQV
MaxQEdges == 3     \* most add_edge calls
MaxQRels  == 1     \* most stored relations
MaxLate   == 1     \* most mutations of G after the first query

\* the paths relations are made of: increasing vertex sequences
QRelPaths ==
    {pth \in SeqsUpTo(1..MaxQV, 2, MaxQV) :
        \A i \in 1..(Len(pth) - 1) : pth[i] < pth[i + 1]}
\* a relation rewrites a path of two arrows or more into a path with the
\* same end points
QRelations ==
    {pq \in QRelPaths \X QRelPaths :
        /\ Len(pq[1]) >= 3
        /\ pq[1][1] = pq[2][1] /\ pq[1][Len(pq[1])] = pq[2][Len(pq[2])]}

InitQuiver ==
    /\ nodes = <<>> /\ edges = <<>> /\ rel = <<>> /\ comm = FALSE
    /\ api = None /\ aii = None /\ ari = None
    /\ RwIdle
    /\ ArIdle
    /\ FnIdle
    /\ qPc = "ready" /\ qRet = NoCall
    /\ nCalls = 0 /\ nLate = 0 /\ queried = FALSE

\* what a call on G leaves alone outside G and the client
clFrame == <<rwVars, arVars, fnVars>>

\* nx add_node(v) on the node list: a new vertex is a new key of the node dict
AddNode(ns, v) == KeyOrders(ns, v)

\* a mutation of G returns None
Mutation ==
    /\ qPc = "ready"
    /\ queried => nLate < MaxLate
    /\ nLate' = IF queried THEN nLate + 1 ELSE nLate
    /\ qRet' = [op |-> "mutation", args |-> <<>>, n |-> 0, vec |-> <<>>, val |-> <<>>,
                again |-> FALSE]
    /\ UNCHANGED <<qPc, nCalls, queried>>

\* nx add_edge(u, v)
QAddEdge(u, v) ==
    /\ Len(edges) < MaxQEdges
    /\ \E ns \in AddNode(nodes, u) : nodes' \in AddNode(ns, v)
    /\ edges' \in AddArrow(edges, u, v)
    /\ Mutation
    /\ UNCHANGED <<rel, comm, api, aii, ari, clFrame>>

\* add_relation(path0, path1)
QAddRelation(path0, path1) ==
    /\ \E rl \in SetRel(rel, path0, path1) :
          /\ Len(rl) <= MaxQRels
          /\ rel' = rl
    /\ Mutation
    /\ UNCHANGED <<nodes, edges, comm, api, aii, ari, clFrame>>

\* Q.comm = b
QSetComm(b) ==
    /\ comm # b
    /\ comm' = b
    /\ Mutation
    /\ UNCHANGED <<nodes, edges, rel, api, aii, ari, clFrame>>

\* the call never returns, after k activations of the per-vertex methods by
\* an all_* method
Hangs(k) ==
    /\ qPc' = "hung"
    /\ nCalls' = nCalls + k
    /\ UNCHANGED qRet

\* the call op(args) raises, after k activations of the per-vertex methods
\* by an all_* method
Raises(op, args, k) ==
    /\ qPc' = "raised"
    /\ qRet' = [op |-> op, args |-> args, n |-> 0, vec |-> <<>>, val |-> <<>>,
                again |-> FALSE]
    /\ nCalls' = nCalls + k

\* the methods that fill a cache
AllOps == {"all_proj_indecomp", "all_inj_indecomp", "all_rad_indecomp"}

\* the call returns the integer n or the list val, after k activations of
\* the per-vertex methods (proj_indecomp, inj_indecomp, radical_proj);
\* again: it is a call of an all_* method and so was the call before it
Returns(op, args, n, val, k) ==
    /\ qRet' = [op |-> op, args |-> args, n |-> n, vec |-> <<>>, val |-> val,
                again |-> (op \in AllOps /\ qRet.op = op)]
    /\ nCalls' = nCalls + k
    /\ UNCHANGED qPc

\* a per-vertex method called by the client returns the tuple vec
ReturnsVec(op, args, vec) ==
    /\ qRet' = [op |-> op, args |-> args, n |-> 0, vec |-> vec, val |-> <<>>,
                again |-> FALSE]
    /\ UNCHANGED <<qPc, nCalls>>

\* countReducedPaths(s, t) for two vertices of G
QCount(s, t) ==
    /\ qPc = "ready"
    /\ IF Converges(G, s, t)
       THEN Returns("countReducedPaths", <<s, t>>, countReducedPaths(G, s, t), <<>>, 0)
       ELSE Hangs(0)
    /\ queried' = TRUE
    /\ UNCHANGED <<nodes, edges, rel, comm, api, aii, ari, nLate, clFrame>>

\* every countReducedPaths(s, t) between vertices of g returns
AllConverge(g) == \A s \in Range(g.nodes), t \in Range(g.nodes) : Converges(g, s, t)

\* the comprehension of line 109 (resp. line 118) for v comes to its end
ProjReturns(g, v) == \A w \in Range(g.nodes) : Converges(g, v, w)
InjReturns(g, v)  == \A w \in Range(g.nodes) : Converges(g, w, v)

\* the position in nodes() of the first vertex at which the comprehension of
\* line 136 (resp. line 152) gets stuck: the vertices before it were each
\* handed to the per-vertex method, and so was this one
FirstProjHang(g) ==
    CHOOSE i \in 1..Len(g.nodes) :
        /\ ~ProjReturns(g, g.nodes[i])
        /\ \A j \in 1..(i - 1) : ProjReturns(g, g.nodes[j])
FirstInjHang(g) ==
    CHOOSE i \in 1..Len(g.nodes) :
        /\ ~InjReturns(g, g.nodes[i])
        /\ \A j \in 1..(i - 1) : InjReturns(g, g.nodes[j])

\* all_proj_indecomp() without the test of line 135
QAllProj_always ==
    /\ qPc = "ready"
    /\ IF ~AllConverge(G)
       THEN Hangs(FirstProjHang(G)) /\ UNCHANGED api
       ELSE LET l == [i \in 1..Len(nodes) |-> proj_indecomp(G, nodes[i])]
            IN  /\ api' = Some(l)
                /\ Returns("all_proj_indecomp", <<>>, 0, l, Len(nodes))
    /\ queried' = TRUE
    /\ UNCHANGED <<nodes, edges, rel, comm, aii, ari, nLate, clFrame>>

\* all_proj_indecomp()
QAllProj ==
    /\ qPc = "ready"
    /\ IF ~Truthy(api) /\ ~AllConverge(G)
       THEN Hangs(FirstProjHang(G)) /\ UNCHANGED api
       ELSE /\ api' = all_proj_indecomp(G)
            /\ Returns("all_proj_indecomp", <<>>, 0, all_proj_indecomp(G).val,
                       IF ~Truthy(api) THEN Len(nodes) ELSE 0)
    /\ queried' = TRUE
    /\ UNCHANGED <<nodes, edges, rel, comm, aii, ari, nLate, clFrame>>

\* all_inj_indecomp()
QAllInj ==
    /\ qPc = "ready"
    /\ IF ~Truthy(aii) /\ ~AllConverge(G)
       THEN Hangs(FirstInjHang(G)) /\ UNCHANGED aii
       ELSE /\ aii' = all_inj_indecomp(G)
            /\ Returns("all_inj_indecomp", <<>>, 0, all_inj_indecomp(G).val,
                       IF ~Truthy(aii) THEN Len(nodes) ELSE 0)
    /\ queried' = TRUE
    /\ UNCHANGED <<nodes, edges, rel, comm, api, ari, nLate, clFrame>>

\* all_rad_indecomp(): with self.ari unset every radical_proj(v) calls
\* proj_indecomp(v) (two activations for each vertex), which reads
\* self.api[index of v] when self.api is set: IndexError at the first
\* position behind the cached list when vertices were added after self.api
\* was filled
QAllRad ==
    /\ qPc = "ready"
    /\ IF ~Truthy(ari) /\ Truthy(api) /\ Len(api.val) < Len(nodes)
       THEN Raises("all_rad_indecomp", <<>>, 2 * (Len(api.val) + 1)) /\ UNCHANGED ari
       ELSE IF ~Truthy(ari) /\ ~Truthy(api) /\ ~AllConverge(G)
       THEN Hangs(2 * FirstProjHang(G)) /\ UNCHANGED ari
       ELSE /\ ari' = all_rad_indecomp(G)
            /\ Returns("all_rad_indecomp", <<>>, 0, all_rad_indecomp(G).val,
                       IF ~Truthy(ari) THEN 2 * Len(nodes) ELSE 0)
    /\ queried' = TRUE
    /\ UNCHANGED <<nodes, edges, rel, comm, api, aii, nLate, clFrame>>

\* does self.api[self.nodes().index(v)] (resp. aii, ari) raise IndexError?
\* (vertices were added to G after the cache c was filled, and v lies behind
\* the positions the cache covers)
OutOfCache(c, v) == Truthy(c) /\ index(nodes, v) > Len(c.val)

\* proj_indecomp(v) for a vertex of G
QProj(v) ==
    /\ qPc = "ready"
    /\ IF OutOfCache(api, v)
       THEN Raises("proj_indecomp", <<v>>, 0)
       ELSE IF ~Truthy(api) /\ ~ProjReturns(G, v)
       THEN Hangs(0)
       ELSE ReturnsVec("proj_indecomp", <<v>>, proj_indecomp(G, v))
    /\ queried' = TRUE
    /\ UNCHANGED <<nodes, edges, rel, comm, api, aii, ari, nLate, clFrame>>

\* inj_indecomp(v) for a vertex of G
QInj(v) ==
    /\ qPc = "ready"
    /\ IF OutOfCache(aii, v)
       THEN Raises("inj_indecomp", <<v>>, 0)
       ELSE IF ~Truthy(aii) /\ ~InjReturns(G, v)
       THEN Hangs(0)
       ELSE ReturnsVec("inj_indecomp", <<v>>, inj_indecomp(G, v))
    /\ queried' = TRUE
    /\ UNCHANGED <<nodes, edges, rel, comm, api, aii, ari, nLate, clFrame>>

\* radical_proj(v) for a vertex of G: with self.ari unset it calls
\* proj_indecomp(v)
QRad(v) ==
    /\ qPc = "ready"
    /\ IF OutOfCache(ari, v) \/ (~Truthy(ari) /\ OutOfCache(api, v))
       THEN Raises("radical_proj", <<v>>, 0)
       ELSE IF ~Truthy(ari) /\ ~Truthy(api) /\ ~ProjReturns(G, v)
       THEN Hangs(0)
       ELSE ReturnsVec("radical_proj", <<v>>, radical_proj(G, v))
    /\ queried' = TRUE
    /\ UNCHANGED <<nodes, edges, rel, comm, api, aii, ari, nLate, clFrame>>

\* The client adds arrows u -> v with u < v only, which keeps G acyclic (the
\* module docstring restricts quivers to DAGs); parallel arrows are allowed.
NextQuiver ==
    \/ \E u, v \in 1..MaxQV : u < v /\ QAddEdge(u, v)
    \/ \E pq \in QRelations : QAddRelation(pq[1], pq[2])
    \/ \E b \in BOOLEAN : QSetComm(b)
    \/ \E s, t \in Range(nodes) : QCount(s, t)
    \/ QAllProj
    \/ QAllInj
    \/ QAllRad
    \/ \E v \in Range(nodes) : QProj(v)
    \/ \E v \in Range(nodes) : QInj(v)
    \/ \E v \in Range(nodes) : QRad(v)

SpecQuiver == InitQuiver /\ [][NextQuiver]_vars

----------------------------------------------------------------------------
\* isSimple and findsublist called on their own: neither reads or writes any
\* state (isSimple does not use self)

\* Bounds of the specification of the two functions
MaxVecLen    == 3     \* longest tuple handed to isSimple
MaxEntry     == 2     \* its entries are drawn from -MaxEntry..MaxEntry
MaxHaySym    == 3     \* haystack and needle entries are drawn from 1..MaxHaySym
MaxHayLen    == 5     \* longest haystack
MaxNeedleLen == 3     \* longest needle

InitPure ==
    /\ nodes = <<>> /\ edges = <<>> /\ rel = <<>> /\ comm = FALSE
    /\ api = None /\ aii = None /\ ari = None
    /\ RwIdle
    /\ ArIdle
    /\ ClIdle
    /\ fnPc = "called" /\ fnRet = NoRet
    /\ \/ /\ fnOp = "isSimple"
          /\ \E module \in SeqsUpTo((-MaxEntry)..MaxEntry, 0, MaxVecLen) :
                fnArgs = <<module>>
       \/ /\ fnOp = "findsublist"
          /\ \E haystack \in SeqsUpTo(1..MaxHaySym, 0, MaxHayLen),
                needle \in SeqsUpTo(1..MaxHaySym, 1, MaxNeedleLen) :
                fnArgs = <<haystack, needle>>

\* what a call of one of the two functions leaves alone
fnFrame == <<nodes, edges, rel, comm, api, aii, ari, rwVars, arVars, clVars>>

\* Q.isSimple(module)
CallIsSimple ==
    /\ fnPc = "called" /\ fnOp = "isSimple"
    /\ fnRet' = [b |-> isSimple(fnArgs[1]), n |-> 0]
    /\ fnPc' = "returned"
    /\ UNCHANGED <<fnOp, fnArgs, fnFrame>>

\* findsublist(haystack, needle)
CallFindsublist ==
    /\ fnPc = "called" /\ fnOp = "findsublist"
    /\ fnRet' = [b |-> FALSE, n |-> findsublist(fnArgs[1], fnArgs[2])]
    /\ fnPc' = "returned"
    /\ UNCHANGED <<fnOp, fnArgs, fnFrame>>

NextPure ==
    \/ CallIsSimple
    \/ CallFindsublist

SpecPure == InitPure /\ [][NextPure]_vars

----------------------------------------------------------------------------
\* Properties of the builder

\* arQuiver has returned (line 219 or line 214)
ArReturned == arPc \in {"done", "infinite"}
\* the all-zero tuple of the length of G's dimension vectors
ZeroVector == [i \in 1..Len(nodes) |-> 0]
\* the head of the queue and its candidate, in a state about to dequeue
HeadP == Head(todo)
RECURSIVE SumOver(_, _)
SumOver(S, j) ==
    IF S = {} THEN 0
    ELSE LET x == CHOOSE y \in S : TRUE IN x[j] + SumOver(S \ {x}, j)
HeadW == [j \in 1..Len(HeadP) |-> SumOver(arNeighbours(HeadP), j) - HeadP[j]]
Dequeuing == arPc = "loop" /\ Len(todo) > 0

\* the loop of line 215 goes through the neighbours of a node at most once
\* in a run: no iteration reaches line 215 with a p it reached it with before
ArIteratesOnce ==
    [][(Dequeuing /\ ctr' # ctr /\ ~RuleA(HeadP) /\ ~RuleB(HeadW) /\ ~RuleC(HeadW))
          => HeadP \notin arIterated]_vars

\* C1: the zero dimension vector is not a node of the AR quiver from its
\* removal on: throughout the worklist phase (after every arrow s -> w) and
\* at both returns.
C1_ZeroNeverANode ==
    arPc \in {"loop", "done", "infinite"} => ZeroVector \notin arNodes

\* the early return of rule C, after the worklist phase added arrows s -> w
C1_Witness ==
    /\ arPc = "infinite"
    /\ \E e \in BagToSet(arEdges) :
          \A v \in Range(nodes) : e[2] # proj_indecomp(G, v)

\* C2: on the quiver of the docstring arQuiver runs to line 219 with the
\* queue empty, rule C is never triggered, and the result has an arrow from
\* radical_proj(1) to proj_indecomp(1), in whatever order the dicts list
\* their keys.  Termination: the run has a next step in every state short of
\* line 219, each loop iteration increments ctr, and ctr never exceeds 28.
IsExample == [G EXCEPT !.aii = None] \in ExampleQuivers
C2_WorkedScenario ==
    IsExample =>
       /\ arPc \notin {"infinite", "raised"}
       /\ ctr <= 28
       /\ (arPc # "done" => ENABLED NextAR)
       /\ (arPc = "done" =>
              /\ todo = <<>>
              /\ <<radical_proj(G, 1), proj_indecomp(G, 1)>> \in BagToSet(arEdges))

\* the docstring's quiver, returned from line 219
C2_Witness ==
    IsExample /\ arPc = "done" /\ ctr > 0

\* C5: what the seed phase added survives: at return every proj_indecomp(v)
\* and inj_indecomp(v) is a node, radical_proj(v) -> proj_indecomp(v) is an
\* arrow unless radical_proj(v) is the zero vector, and from the removal of
\* the zero vector on no node and no arrow is removed.
C5_SeedSurvives ==
    /\ [](ArReturned =>
            \A v \in Range(nodes) :
               /\ proj_indecomp(G, v) \in arNodes
               /\ inj_indecomp(G, v) \in arNodes
               /\ (radical_proj(G, v) # ZeroVector =>
                     <<radical_proj(G, v), proj_indecomp(G, v)>> \in BagToSet(arEdges)))
    /\ [][(arPc \in {"loop", "done", "infinite"}) =>
            (arNodes \subseteq arNodes' /\ arEdges \sqsubseteq arEdges')]_vars

\* a return after the worklist phase added nodes, for a quiver with a
\* vertex whose radical is not zero
C5_Witness ==
    /\ ArReturned
    /\ \E v \in Range(nodes) : radical_proj(G, v) # ZeroVector
    /\ \E n \in arNodes : \A v \in Range(nodes) :
          n \notin {proj_indecomp(G, v), inj_indecomp(G, v), radical_proj(G, v)}

\* C6: when the candidate of the dequeued p has no negative component and a
\* component >= 7 (and p is not skipped by rule A), the iteration returns the
\* AR quiver as it was, enqueues nothing, and nothing happens afterwards.
C6_RuleCReturnsImmediately ==
    [][/\ (Dequeuing /\ ~(isSimple(HeadP) /\ \E v \in Range(nodes) : inj_indecomp(G, v) = HeadP)
                     /\ (\A j \in DOMAIN HeadW : HeadW[j] >= 0)
                     /\ (\E j \in DOMAIN HeadW : HeadW[j] >= 7))
            => (/\ arPc' = "infinite" /\ arNodes' = arNodes /\ arEdges' = arEdges
                /\ todo' = Tail(todo))
       /\ arPc = "infinite"
            => (arPc' = "infinite" /\ arNodes' = arNodes /\ arEdges' = arEdges /\ todo' = todo)
      ]_vars

\* rule C has returned while vectors were still queued
C6_Witness ==
    arPc = "infinite" /\ Len(todo) > 0

\* C7: no vector of the queue and no node of the AR quiver has a negative
\* component, and an iteration whose candidate has a negative component adds
\* no arrow, adds no node and enqueues nothing.
C7_NoNegativeComponent ==
    /\ [](\A x \in Range(todo) \cup arNodes : \A j \in DOMAIN x : x[j] >= 0)
    /\ [][(Dequeuing /\ \E j \in DOMAIN HeadW : HeadW[j] < 0)
            => (arEdges' = arEdges /\ arNodes' = arNodes /\ todo' = Tail(todo))]_vars

\* rule B has discarded a vector and the worklist went on to add nodes
C7_Witness ==
    /\ arPc = "loop" /\ Len(todo) > 0
    /\ \E j \in DOMAIN HeadW : HeadW[j] < 0
    /\ ctr > 0

----------------------------------------------------------------------------
\* Properties of the Quiver class

\* the number of directed walks from s to t in the multigraph with arrows es
\* (parallel arrows give different walks)
RECURSIVE WalkCount(_, _, _)
WalkCount(es, s, t) ==
    IF s = t THEN 1
    ELSE sum([k \in 1..Len(es) |->
                IF es[k][1] = s THEN WalkCount(es, es[k][2], t) ELSE 0])

\* the last call was countReducedPaths(s, t) and G is as it was then
Counted == qPc = "ready" /\ qRet.op = "countReducedPaths"

\* C4 (as claimed): with no relations and comm off, countReducedPaths(s, t)
\* is the number of directed walks from s to t in the multigraph, parallel
\* arrows counted separately.
C4_CountsWalks ==
    (Counted /\ rel = <<>> /\ ~comm)
       => qRet.n = WalkCount(edges, qRet.args[1], qRet.args[2])

\* C9: with comm set, countReducedPaths(s, t) is 1 when there is a directed
\* path from s to t and 0 otherwise, whatever the relations and however many
\* unreduced paths there are.
C9_CommutativeZeroOrOne ==
    (Counted /\ comm)
       => /\ qRet.n \in {0, 1}
          /\ qRet.n = 1 <=> WalkCount(edges, qRet.args[1], qRet.args[2]) > 0

\* a count of 1 in commutative mode for two vertices joined by several paths
\* in a quiver with a relation
C9_Witness ==
    /\ Counted /\ comm /\ rel # <<>>
    /\ qRet.n = 1
    /\ Len(listPaths(G, qRet.args[1], qRet.args[2])) >= 2

\* C10: a call of all_proj_indecomp, all_inj_indecomp or all_rad_indecomp
\* that directly follows a call of the same method returns, returns the same
\* list, and activates no per-vertex method.
C10_AllIdempotent ==
    [][((/\ qPc = "ready"
         /\ \/ (qRet.op = "all_proj_indecomp" /\ QAllProj)
            \/ (qRet.op = "all_inj_indecomp" /\ QAllInj)
            \/ (qRet.op = "all_rad_indecomp" /\ QAllRad))
        => (/\ qPc' = "ready"
            /\ qRet'.op = qRet.op
            /\ qRet'.val = qRet.val
            /\ nCalls' = nCalls))]_vars

\* a second call in a row has returned, on a quiver with vertices, arrows
\* and a relation
C10_Witness ==
    /\ qRet.op \in AllOps /\ qRet.again
    /\ Len(edges) = MaxQEdges /\ rel # <<>>

PerVertexOps == {"proj_indecomp", "inj_indecomp", "radical_proj"}
\* the cache that the per-vertex method op reads first
CacheOf(op) ==
    IF op = "proj_indecomp" THEN api ELSE IF op = "inj_indecomp" THEN aii ELSE ari
\* a populated cache is never assigned again
CachesFrozen ==
    /\ (Truthy(api) => api' = api)
    /\ (Truthy(aii) => aii' = aii)
    /\ (Truthy(ari) => ari' = ari)

\* C11 (as claimed): a populated cache never changes under add_edge,
\* add_relation, comm changes and queries, and with its cache populated
\* proj_indecomp(v) (resp. inj_indecomp, radical_proj) returns the cached
\* entry at v's position, for every vertex v of the quiver.
C11_CachedEntryReturned ==
    [][/\ CachesFrozen
       /\ \A v \in Range(nodes) :
            /\ (Truthy(api) /\ QProj(v))
                  => (qPc' = "ready" /\ qRet'.vec = api.val[index(nodes, v)])
            /\ (Truthy(aii) /\ QInj(v))
                  => (qPc' = "ready" /\ qRet'.vec = aii.val[index(nodes, v)])
            /\ (Truthy(ari) /\ QRad(v))
                  => (qPc' = "ready" /\ qRet'.vec = ari.val[index(nodes, v)])
      ]_vars

\* C11 (amended): a populated cache never changes, and with its cache
\* populated proj_indecomp(v) (resp. inj_indecomp, radical_proj) returns the
\* cached entry at the position v has in nodes() at the time of the call,
\* whatever a recomputation would give, when that position lies within the
\* cached list, and raises when it lies beyond (a vertex added by a later
\* add_edge takes any place in nodes(): the entry returned for a vertex can
\* be the one cached for another vertex).
C11_CacheFrozen ==
    [][/\ CachesFrozen
       /\ \A v \in Range(nodes) :
            /\ (Truthy(api) /\ QProj(v)) =>
                  IF index(nodes, v) <= Len(api.val)
                  THEN qPc' = "ready" /\ qRet'.vec = api.val[index(nodes, v)]
                  ELSE qPc' = "raised"
            /\ (Truthy(aii) /\ QInj(v)) =>
                  IF index(nodes, v) <= Len(aii.val)
                  THEN qPc' = "ready" /\ qRet'.vec = aii.val[index(nodes, v)]
                  ELSE qPc' = "raised"
            /\ (Truthy(ari) /\ QRad(v)) =>
                  IF index(nodes, v) <= Len(ari.val)
                  THEN qPc' = "ready" /\ qRet'.vec = ari.val[index(nodes, v)]
                  ELSE qPc' = "raised"
      ]_vars

\* proj_indecomp(v) has returned a cached entry that a recomputation on the
\* quiver as it is now would not give
C11_Witness ==
    /\ qPc = "ready" /\ qRet.op = "proj_indecomp" /\ Truthy(api)
    /\ qRet.vec = api.val[index(nodes, qRet.args[1])]
    /\ qRet.vec # proj_indecomp_noCache(G, qRet.args[1])

----------------------------------------------------------------------------
\* Properties of isSimple and findsublist

\* the argument of a returned isSimple call
SimpleArg == fnArgs[1]
SimpleReturned == fnPc = "returned" /\ fnOp = "isSimple"
\* one component equals 1 and all other components are 0
UnitVector(m) ==
    \E i \in DOMAIN m : m[i] = 1 /\ \A j \in (DOMAIN m) \ {i} : m[j] = 0

\* C12: isSimple(vector) is true exactly when one component equals 1 and
\* all other components are 0; it is false for the zero vector and for any
\* vector with a component >= 2 (entries may be negative).
C12_IsSimpleExact ==
    SimpleReturned =>
       /\ fnRet.b <=> UnitVector(SimpleArg)
       /\ (\A j \in DOMAIN SimpleArg : SimpleArg[j] = 0) => ~fnRet.b
       /\ (\E j \in DOMAIN SimpleArg : SimpleArg[j] >= 2) => ~fnRet.b

\* isSimple has returned true on a vector of the greatest length
C12_Witness ==
    SimpleReturned /\ fnRet.b /\ Len(SimpleArg) = MaxVecLen

\* the arguments of a returned findsublist call
Hay == fnArgs[1]
Needle == fnArgs[2]
FindReturned == fnPc = "returned" /\ fnOp = "findsublist"
\* needle occurs in haystack at the 0-based position i
OccursAt(haystack, needle, i) ==
    /\ i >= 0 /\ i + Len(needle) <= Len(haystack)
    /\ \A k \in 1..Len(needle) : haystack[i + k] = needle[k]
Occurrences(haystack, needle) ==
    {i \in 0..Len(haystack) : OccursAt(haystack, needle, i)}

\* C13: findsublist(haystack, needle), needle not empty, returns the least
\* position at which needle occurs in haystack when there is one, and -1
\* exactly when there is none.
C13_LeftmostOccurrence ==
    FindReturned =>
       /\ (Occurrences(Hay, Needle) = {} <=> fnRet.n = -1)
       /\ (Occurrences(Hay, Needle) # {} =>
             /\ fnRet.n \in Occurrences(Hay, Needle)
             /\ \A i \in Occurrences(Hay, Needle) : fnRet.n <= i)

\* findsublist has returned the first of several occurrences, after at
\* least one shift of the window
C13_Witness ==
    /\ FindReturned
    /\ Cardinality(Occurrences(Hay, Needle)) >= 2
    /\ fnRet.n > 0 /\ Len(Needle) >= 2

----------------------------------------------------------------------------
\* Properties of the rewriter

\* C3 (as claimed): every rewrite step replaces only the matched region: when
\* pattern r with replacement q is found at position pos of the current path
\* c, the path after the step is c[0..pos) \o q \o c[pos+len(r)..end).
C3_ReplacesMatchedRegion ==
    [][RwForMatch =>
         rwRet' = SubSeq(rwRet, 1, RwPos) \o rel[rwI][2]
                    \o SliceFrom(rwRet, RwPos + Len(rel[rwI][1]))]_vars

\* C8: normalization is idempotent: when the call on the first call's result
\* returns, it returns that result unchanged.
C8_Idempotent ==
    (rwPc = "returned" /\ rwCall = 2) => rwRet = rwFirst

\* the second call has returned, and the first call did rewrite its argument
C8_Witness ==
    rwPc = "returned" /\ rwCall = 2 /\ rwFirst # rwInput /\ Len(rel) = MaxRels

\* pattern r occurs in path c as a contiguous sub-sequence
OccursIn(r, c) == Occurrences(c, r) # {}

\* C14: applyRelations returns only at a fixpoint: the returned path holds
\* no stored pattern as a contiguous sub-sequence; and with a single rule
\* whose replacement contains its own pattern, on a path that contains the
\* pattern, it never returns.
C14_ReturnsOnlyAtFixpoint ==
    /\ rwPc = "returned" => \A k \in 1..Len(rel) : ~OccursIn(rel[k][1], rwRet)
    /\ (/\ Len(rel) = 1
        /\ OccursIn(rel[1][1], rel[1][2])
        /\ OccursIn(rel[1][1], rwInput)) => rwPc # "returned"

\* a call has returned after rewriting its argument, with MaxRels relations
\* stored
C14_Witness ==
    /\ rwPc = "returned" /\ rwCall = 1
    /\ rwRet # rwInput /\ Len(rwRet) > 0
    /\ Len(rel) = MaxRels

\* in a pass of the for loop, a relation was already applied
RewroteInPass == rwPc = "for" /\ ~rwStop
\* the relation the for loop is at, and whether its pattern occurs in ret
AtRelation == rwPc = "for" /\ rwI <= Len(rel)
Min(S) == CHOOSE x \in S : \A y \in S : x <= y

\* C15 (as claimed): once a relation was applied in a scan of the relation
\* set, no later relation is applied before the scan has restarted from the
\* first relation.
C15_RestartsFromTop ==
    [][RewroteInPass => ~RwForMatch]_vars

\* C15 (amended): a rewrite does not restart the scan.  The scan goes on to
\* the next relation in iteration order; a later relation whose pattern
\* occurs in the rewritten path is applied in the same scan; the scan goes
\* back to the first relation only from the end of the relation set, and it
\* does so whenever a relation was applied during the scan.
C15_ScanContinues ==
    [][/\ AtRelation => (rwPc' = "for" /\ rwI' = rwI + 1)
       /\ (AtRelation /\ OccursIn(rel[rwI][1], rwRet)) =>
             /\ rwStop' = FALSE
             /\ rwRet' = rel[rwI][2]
                           \o SliceFrom(rwP, Min(Occurrences(rwRet, rel[rwI][1]))
                                                + Len(rel[rwI][1]))
       /\ (rwPc = "for" /\ rwPc' # "for") => (rwI > Len(rel) /\ rwPc' = "while")
       /\ (rwPc = "while" /\ ~rwStop) => (rwPc' = "for" /\ rwI' = 1)
      ]_vars

\* the first relation was applied in this scan and the pattern of the second
\* occurs in the rewritten path
C15_Witness ==
    /\ RewroteInPass /\ rwI = 2 /\ Len(rel) = 2
    /\ OccursIn(rel[2][1], rwRet)
    /\ ~OccursIn(rel[2][1], rwInput)

----------------------------------------------------------------------------
\* Further properties of the builder

\* C16: the worklist phase terminates: from its start arQuiver reaches
\* line 219 with the queue empty or the return of rule C (line 214), within
\* the iterations the model follows.
C16_WorklistTerminates ==
    (arPc = "loop") ~> ((arPc = "done" /\ todo = <<>>) \/ arPc = "infinite")

\* a run of more than twice as many iterations as G has vertices, in which
\* the worklist phase added arrows, has returned from line 219
C16_Witness ==
    /\ arPc = "done" /\ todo = <<>>
    /\ ctr > 2 * Len(nodes) /\ BagCardinality(arEdges) > Len(nodes)

\* every component of x lies in 0..6
Below7(x) == \A j \in DOMAIN x : x[j] \in 0..6
\* the nodes the seed phase creates (lines 191-192)
SeedNodes ==
    UNION {{radical_proj(G, v), proj_indecomp(G, v), inj_indecomp(G, v)} :
              v \in Range(nodes)}

\* C17: every arrow the worklist phase adds points to a candidate with all
\* components in 0..6, every node it adds has all components in 0..6, and
\* a node with a component of 7 or more is a node of the seed phase.
C17_WorklistNodesBelowThreshold ==
    /\ [][arPc = "loop" =>
            /\ \A x \in arNodes' \ arNodes : Below7(x)
            /\ \A e \in BagToSet(arEdges') :
                  CopiesIn(e, arEdges') > CopiesIn(e, arEdges) => Below7(e[2])
         ]_vars
    /\ [](\A x \in arNodes : ~Below7(x) => x \in SeedNodes)

\* the worklist phase has added a node with a component of 6, and the run
\* went on to the return of rule C
C17_Witness ==
    /\ arPc = "infinite"
    /\ \E x \in arNodes \ SeedNodes : \E j \in DOMAIN x : x[j] = 6

\* C18: the queue never holds the same dimension vector twice: during and
\* after the seed phase and after every iteration of the worklist loop its
\* entries are pairwise different.
C18_QueueDistinct ==
    \A i, j \in 1..Len(todo) : i # j => todo[i] # todo[j]

\* an iteration is about to add arrows to successors of which one is
\* already queued (line 217 will skip it) and one is not
C18_Witness ==
    /\ Dequeuing
    /\ ~RuleA(HeadP) /\ ~RuleB(HeadW) /\ ~RuleC(HeadW)
    /\ \E s \in arNeighbours(HeadP) : s \in Range(Tail(todo))
    /\ \E s \in arNeighbours(HeadP) : s \notin Range(Tail(todo))

====
